---- MODULE Spec2Model ----
(***************************************************************************)
(* GenericPacket<S, T> (src/include/GenericPacket.h): a length-prefixed    *)
(* packet codec.  A Header holds an S-typed payload size and a T-typed     *)
(* type tag; a packet is a Header and a QByteArray payload.  The model     *)
(* covers the instantiations with 8- and 16-bit fields, on a little- and   *)
(* on a big-endian host.  Bytes are the integers 0..255.                   *)
(***************************************************************************)
EXTENDS Integers, Sequences, FiniteSets, TLC

VARIABLES
    hostLE,     \* TRUE on a little-endian host (decides htons/ntohs and the layout of RawHeader in memory)
    W_s,        \* sizeof(S) in bytes
    W_t,        \* sizeof(T) in bytes
    data,       \* the caller's QByteArray passed to the static parsers
    packet,     \* the caller's GenericPacket object
    header,     \* the caller's Header object
    error,      \* exception thrown by the last call: "none", "length_error", "range_error"
    call,       \* the last call: its name, its arguments and the buffer it was given
    result,     \* the value the last call returned (bool, bytes, number)
    pc,         \* position of the scenario driving the calls
    sent,       \* stream scenario: packets the sender has serialised, in order
    wire,       \* stream scenario: serialised bytes not yet appended to data
    appended,   \* stream scenario: all bytes appended to data so far
    extracted,  \* stream scenario: packets the deframing loop has extracted, in order
    first       \* repeat scenario: what the first of two identical calls left behind

vars == <<hostLE, W_s, W_t, data, packet, header, error, call, result,
          pc, sent, wire, appended, extracted, first>>

config == <<hostLE, W_s, W_t>>
stream == <<sent, wire, appended, extracted>>

----------------------------------------------------------------------------
(* Bounds of the exploration *)

\* longest payload written byte by byte in the object scenario
MaxPayload == 3
\* payload lengths maxSize()-CapSlack .. maxSize()+CapSlack are tried at the capacity boundary
CapSlack == 1
\* longest buffer handed to the parsers
MaxData == 6
\* number of packets sent through the stream scenario
MaxPackets == 2
\* longest payload in the stream scenario
MaxStreamPayload == 1

Widths == {1, 2}
PayloadBytes == {66}
BufferBytes == {0, 1, 65}

----------------------------------------------------------------------------
(* Integers of w bytes *)

RECURSIVE Pow256(_)
Pow256(w) == IF w = 0 THEN 1 ELSE 256 * Pow256(w - 1)

\* static_cast<S>(n) for an unsigned type of w bytes
static_cast(n, w) == n % Pow256(w)

\* std::numeric_limits<U>::max() for an unsigned type of w bytes
numeric_limits_max(w) == Pow256(w) - 1

RECURSIVE ByteSwap(_, _)
ByteSwap(v, w) ==
    IF w = 0 THEN 0
    ELSE (v % 256) * Pow256(w - 1) + ByteSwap(v \div 256, w - 1)

\* the bytes of a w-byte integer as the host keeps it in memory
RECURSIVE BigEndianBytes(_, _)
BigEndianBytes(v, w) ==
    IF w = 0 THEN <<>>
    ELSE Append(BigEndianBytes(v \div 256, w - 1), v % 256)

RECURSIVE LittleEndianBytes(_, _)
LittleEndianBytes(v, w) ==
    IF w = 0 THEN <<>>
    ELSE <<v % 256>> \o LittleEndianBytes(v \div 256, w - 1)

StoreNative(v, w) ==
    IF hostLE THEN LittleEndianBytes(v, w) ELSE BigEndianBytes(v, w)

RECURSIVE BigEndianValue(_)
BigEndianValue(b) ==
    IF b = <<>> THEN 0
    ELSE 256 * BigEndianValue(SubSeq(b, 1, Len(b) - 1)) + b[Len(b)]

RECURSIVE LittleEndianValue(_)
LittleEndianValue(b) ==
    IF b = <<>> THEN 0
    ELSE b[1] + 256 * LittleEndianValue(Tail(b))

LoadNative(b) ==
    IF hostLE THEN LittleEndianValue(b) ELSE BigEndianValue(b)

\* GenericPacketHelper::ntoh / hton: the identity for uint8_t, ntohs/htons for uint16_t
ntoh_identity(value, w) == value

ntoh(value, w) ==
    IF w = 1 THEN value
    ELSE IF hostLE THEN ByteSwap(value, w) ELSE value

hton_identity(value, w) == value

hton(value, w) ==
    IF w = 1 THEN value
    ELSE IF hostLE THEN ByteSwap(value, w) ELSE value

----------------------------------------------------------------------------
(* QByteArray *)

Min(a, b) == IF a < b THEN a ELSE b

\* QByteArray::mid(pos, len), 0 <= pos, 0 <= len
mid(d, pos, len) == SubSeq(d, pos + 1, Min(pos + len, Len(d)))

\* QByteArray::left(len)
left(d, len) == SubSeq(d, 1, Min(len, Len(d)))

\* QByteArray::remove(pos, len)
remove(d, pos, len) ==
    SubSeq(d, 1, Min(pos, Len(d))) \o SubSeq(d, pos + len + 1, Len(d))

----------------------------------------------------------------------------
(* GenericPacketHelper::RawHeader: S size; T type; packed *)

RawHeader_fromData(d) ==
    [size |-> ntoh(LoadNative(SubSeq(d, 1, W_s)), W_s),
     type |-> ntoh(LoadNative(SubSeq(d, W_s + 1, W_s + W_t)), W_t)]

RawHeader_toData(size, type) ==
    StoreNative(hton(size, W_s), W_s) \o StoreNative(hton(type, W_t), W_t)

----------------------------------------------------------------------------
(* GenericPacket::Header *)

Header_new(size, type) == [m_size |-> size, m_type |-> type]

Header_dataSize == W_s + W_t

Header_maxSize == numeric_limits_max(W_s)

Header_hasCompleteHeader_strict(d) == Len(d) > Header_dataSize

Header_hasCompleteHeader(d) == Len(d) >= Header_dataSize

\* Header(const QByteArray &)
Header_copy(d) ==
    Header_new(RawHeader_fromData(d).size, RawHeader_fromData(d).type)

\* as Header(QByteArray &) of src/GenericPacketT.cpp:121 does it: decode what
\* follows the removed prefix (bytes past the end read as 0)
Header_take_after_remove(d) ==
    LET rest == remove(d, 0, Header_dataSize)
    IN  [header |-> Header_copy(rest \o [i \in 1..Header_dataSize |-> 0]),
         data |-> rest]

\* the header decoded but its bytes left in the buffer
Header_take_no_remove(d) ==
    [header |-> Header_copy(d), data |-> d]

\* Header(QByteArray &): the header built and the buffer it leaves
Header_take(d) ==
    [header |-> Header_copy(d), data |-> remove(d, 0, Header_dataSize)]

Header_toData(h) == RawHeader_toData(h.m_size, h.m_type)

Header_setSize(h, size) == [h EXCEPT !.m_size = size]

----------------------------------------------------------------------------
(* GenericPacket *)

DefaultPacket == [m_header |-> Header_new(0, 0), m_payload |-> <<>>]

ensureSizeCanHoldPayloadThrows_late(p) ==
    Len(p.m_payload) > Header_maxSize + 1

\* the condition under which ensureSizeCanHoldPayload throws std::range_error
ensureSizeCanHoldPayloadThrows(p) == Len(p.m_payload) > Header_maxSize

\* the members as the constructor GenericPacket(Type, payload) initialises them
Packet_new(type, payload) ==
    [m_header |-> Header_new(static_cast(Len(payload), W_s), type),
     m_payload |-> payload]

Packet_hasCompletePacket_strict(d) ==
    /\ Header_hasCompleteHeader(d)
    /\ Len(d) - Header_dataSize > Header_copy(d).m_size

Packet_hasCompletePacket(d) ==
    /\ Header_hasCompleteHeader(d)
    /\ Len(d) - Header_dataSize >= Header_copy(d).m_size

Packet_toData(p) == Header_toData(p.m_header) \o p.m_payload

Packet_dataSize(p) == Header_dataSize + Len(p.m_payload)

\* GenericPacket(const QByteArray &)
Packet_copy(d) ==
    LET h == Header_copy(d)
    IN  [m_header |-> h, m_payload |-> mid(d, Header_dataSize, h.m_size)]

\* the payload looked up at the header's offset although the header is gone
Packet_take_mid(d) ==
    LET h == Header_take(d)
    IN  [packet |-> [m_header |-> h.header,
                     m_payload |-> mid(h.data, Header_dataSize, h.header.m_size)],
         data |-> remove(h.data, 0, h.header.m_size)]

\* GenericPacket(QByteArray &): the packet built and the buffer it leaves
Packet_take(d) ==
    LET h == Header_take(d)
    IN  [packet |-> [m_header |-> h.header,
                     m_payload |-> left(h.data, h.header.m_size)],
         data |-> remove(h.data, 0, h.header.m_size)]

----------------------------------------------------------------------------
(* Calls: every call records its name, its arguments and the buffer it saw *)

NoResult == [bool |-> FALSE, bytes |-> <<>>, num |-> 0]

Called(op, type, payload) ==
    call' = [op |-> op, type |-> type, payload |-> payload, pre |-> data]

\* GenericPacket(Type type, const QByteArray &payload)
Construct(type, payload) ==
    /\ Called("GenericPacket", type, payload)
    /\ IF ensureSizeCanHoldPayloadThrows(Packet_new(type, payload))
       THEN error' = "range_error" /\ UNCHANGED packet
       ELSE error' = "none" /\ packet' = Packet_new(type, payload)
    /\ result' = NoResult
    /\ UNCHANGED <<config, data, header>>

\* GenericPacket::setPayload(const QByteArray &payload)
SetPayload(payload) ==
    /\ Called("setPayload", 0, payload)
    /\ packet' = [m_header |-> Header_setSize(packet.m_header,
                                   static_cast(Len(payload), W_s)),
                  m_payload |-> payload]
    /\ error' = "none"
    /\ result' = NoResult
    /\ UNCHANGED <<config, data, header>>

\* packet.payload().append(byte): a write through the mutable accessor
PayloadAppend(byte) ==
    /\ Len(packet.m_payload) < MaxPayload
    /\ Called("payload().append", 0, <<byte>>)
    /\ packet' = [packet EXCEPT !.m_payload = Append(@, byte)]
    /\ error' = "none"
    /\ result' = NoResult
    /\ UNCHANGED <<config, data, header>>

\* packet.payload().chop(1): a write through the mutable accessor
PayloadChop ==
    /\ Len(packet.m_payload) > 0
    /\ Len(packet.m_payload) <= MaxPayload
    /\ Called("payload().chop", 0, <<>>)
    /\ packet' = [packet EXCEPT !.m_payload = SubSeq(@, 1, Len(@) - 1)]
    /\ error' = "none"
    /\ result' = NoResult
    /\ UNCHANGED <<config, data, header>>

\* GenericPacket::toData() const
ToData ==
    /\ Called("toData", 0, <<>>)
    /\ result' = [NoResult EXCEPT !.bytes = Packet_toData(packet)]
    /\ error' = "none"
    /\ UNCHANGED <<config, data, header, packet>>

\* GenericPacket::dataSize() const
DataSize ==
    /\ Called("dataSize", 0, <<>>)
    /\ result' = [NoResult EXCEPT !.num = Packet_dataSize(packet)]
    /\ error' = "none"
    /\ UNCHANGED <<config, data, header, packet>>

\* Header::hasCompleteHeader(data)
HasCompleteHeader ==
    /\ Called("hasCompleteHeader", 0, <<>>)
    /\ result' = [NoResult EXCEPT !.bool = Header_hasCompleteHeader(data)]
    /\ error' = "none"
    /\ UNCHANGED <<config, data, header, packet>>

\* GenericPacket::hasCompletePacket(data)
HasCompletePacket ==
    /\ Called("hasCompletePacket", 0, <<>>)
    /\ result' = [NoResult EXCEPT !.bool = Packet_hasCompletePacket(data)]
    /\ error' = "none"
    /\ UNCHANGED <<config, data, header, packet>>

\* header = Header::fromData(data)
HeaderFromData ==
    /\ Called("Header::fromData", 0, <<>>)
    /\ IF ~Header_hasCompleteHeader(data)
       THEN error' = "length_error" /\ UNCHANGED header
       ELSE error' = "none" /\ header' = Header_copy(data)
    /\ result' = NoResult
    /\ UNCHANGED <<config, data, packet>>

\* header = Header::extractFromData(data)
HeaderExtractFromData ==
    /\ Called("Header::extractFromData", 0, <<>>)
    /\ IF ~Header_hasCompleteHeader(data)
       THEN error' = "length_error" /\ UNCHANGED <<header, data>>
       ELSE /\ error' = "none"
            /\ header' = Header_take(data).header
            /\ data' = Header_take(data).data
    /\ result' = NoResult
    /\ UNCHANGED <<config, packet>>

\* fromData built through the consuming constructor GenericPacket(QByteArray &)
PacketFromData_consuming ==
    /\ Called("fromData", 0, <<>>)
    /\ IF ~Packet_hasCompletePacket(data)
       THEN error' = "length_error" /\ UNCHANGED <<packet, data>>
       ELSE /\ error' = "none"
            /\ packet' = Packet_take(data).packet
            /\ data' = Packet_take(data).data
    /\ result' = NoResult
    /\ UNCHANGED <<config, header>>

\* packet = GenericPacket::fromData(data)
PacketFromData ==
    /\ Called("fromData", 0, <<>>)
    /\ IF ~Packet_hasCompletePacket(data)
       THEN error' = "length_error" /\ UNCHANGED packet
       ELSE error' = "none" /\ packet' = Packet_copy(data)
    /\ result' = NoResult
    /\ UNCHANGED <<config, data, header>>

\* the header is taken before the payload is known to be complete
PacketExtractFromData_eager ==
    /\ Called("extractFromData", 0, <<>>)
    /\ IF ~Header_hasCompleteHeader(data)
       THEN error' = "length_error" /\ UNCHANGED <<packet, data>>
       ELSE IF ~Packet_hasCompletePacket(data)
       THEN /\ error' = "length_error"
            /\ data' = Header_take(data).data
            /\ UNCHANGED packet
       ELSE /\ error' = "none"
            /\ packet' = Packet_take(data).packet
            /\ data' = Packet_take(data).data
    /\ result' = NoResult
    /\ UNCHANGED <<config, header>>

\* packet = GenericPacket::extractFromData(data)
PacketExtractFromData ==
    /\ Called("extractFromData", 0, <<>>)
    /\ IF ~Packet_hasCompletePacket(data)
       THEN error' = "length_error" /\ UNCHANGED <<packet, data>>
       ELSE /\ error' = "none"
            /\ packet' = Packet_take(data).packet
            /\ data' = Packet_take(data).data
    /\ result' = NoResult
    /\ UNCHANGED <<config, header>>

----------------------------------------------------------------------------
(* Inputs *)

RECURSIVE SeqsUpTo(_, _)
SeqsUpTo(S, n) ==
    IF n = 0 THEN {<<>>}
    ELSE LET shorter == SeqsUpTo(S, n - 1)
         IN  shorter \cup {Append(q, x) : q \in shorter, x \in S}

Fill(byte, n) == [i \in 1..n |-> byte]

\* payloads around the capacity of an 8-bit and of a 16-bit size field
NearCapacity8 ==
    {Fill(65, n) : n \in (255 - CapSlack)..(255 + CapSlack)}
NearCapacity16 ==
    {Fill(65, n) : n \in (65535 - CapSlack)..(65535 + CapSlack)}
\* "", "A", "AB", "ABC", ...
ShortPayloads == {[i \in 1..n |-> 64 + i] : n \in 0..MaxPayload}

PayloadInputs == ShortPayloads

CapacityInputs == IF W_s = 1 THEN NearCapacity8 ELSE NearCapacity16

\* type tags: a small one and one with distinct high and low bytes
TypeInputs == {7, numeric_limits_max(W_t) - 1}

Buffers == SeqsUpTo(BufferBytes, MaxData)

\* what a call leaves behind: the exception, the return value, the caller's
\* objects and the buffer
Outcome == [error |-> error, result |-> result, packet |-> packet,
            header |-> header, data |-> data]

NoOutcome == [error |-> "none", result |-> NoResult, packet |-> DefaultPacket,
              header |-> Header_new(0, 0), data |-> <<>>]

InitCommon ==
    /\ hostLE \in BOOLEAN
    /\ W_s \in Widths
    /\ W_t \in Widths
    /\ packet = DefaultPacket
    /\ header = Header_new(0, 0)
    /\ error = "none"
    /\ call = [op |-> "none", type |-> 0, payload |-> <<>>, pre |-> <<>>]
    /\ result = NoResult
    /\ sent = <<>>
    /\ wire = <<>>
    /\ appended = <<>>
    /\ extracted = <<>>
    /\ first = NoOutcome

----------------------------------------------------------------------------
(* Spec: one packet object, built, mutated, serialised, and parsed back    *)
(* from a buffer that holds serialised packets.                            *)

Init ==
    /\ InitCommon
    /\ data = <<>>
    /\ pc = "object"

DoConstruct ==
    \E t \in TypeInputs, p \in PayloadInputs :
        Construct(t, p) /\ UNCHANGED <<pc, stream, first>>

DoSetPayload ==
    \E p \in PayloadInputs : SetPayload(p) /\ UNCHANGED <<pc, stream, first>>

DoPayloadAppend ==
    \E b \in PayloadBytes : PayloadAppend(b) /\ UNCHANGED <<pc, stream, first>>

DoPayloadChop == PayloadChop /\ UNCHANGED <<pc, stream, first>>

DoToData == ToData /\ UNCHANGED <<pc, stream, first>>

DoDataSize == DataSize /\ UNCHANGED <<pc, stream, first>>

\* the caller puts the bytes toData() returned into the buffer
DoFill ==
    /\ call.op = "toData"
    /\ Len(result.bytes) <= MaxData
    /\ data' = result.bytes
    /\ UNCHANGED <<config, packet, header, error, call, result, pc, stream, first>>

DoPacketFromData == PacketFromData /\ UNCHANGED <<pc, stream, first>>

DoPacketExtractFromData == PacketExtractFromData /\ UNCHANGED <<pc, stream, first>>

Next ==
    \/ DoConstruct
    \/ DoSetPayload
    \/ DoPayloadAppend
    \/ DoPayloadChop
    \/ DoToData
    \/ DoDataSize
    \/ DoFill
    \/ DoPacketFromData
    \/ DoPacketExtractFromData

Spec == Init /\ [][Next]_vars

----------------------------------------------------------------------------
(* SpecParse: the static predicates and parsers on an arbitrary buffer     *)

InitParse ==
    /\ InitCommon
    /\ data \in Buffers
    /\ pc = "parse"

ParseHasCompleteHeader == HasCompleteHeader /\ UNCHANGED <<pc, stream, first>>
ParseHasCompletePacket == HasCompletePacket /\ UNCHANGED <<pc, stream, first>>
ParseHeaderFromData == HeaderFromData /\ UNCHANGED <<pc, stream, first>>
ParseHeaderExtractFromData == HeaderExtractFromData /\ UNCHANGED <<pc, stream, first>>
ParsePacketFromData == PacketFromData /\ UNCHANGED <<pc, stream, first>>
ParsePacketExtractFromData == PacketExtractFromData /\ UNCHANGED <<pc, stream, first>>

NextParse ==
    \/ ParseHasCompleteHeader
    \/ ParseHasCompletePacket
    \/ ParseHeaderFromData
    \/ ParseHeaderExtractFromData
    \/ ParsePacketFromData
    \/ ParsePacketExtractFromData

SpecParse == InitParse /\ [][NextParse]_vars

----------------------------------------------------------------------------
(* SpecCapacity: construction and setPayload with payloads around the      *)
(* largest length the size field can hold                                  *)

InitCapacity ==
    /\ InitCommon
    /\ data = <<>>
    /\ pc = "capacity"

CapConstruct ==
    \E t \in TypeInputs, p \in CapacityInputs \cup {<<>>} :
        Construct(t, p) /\ UNCHANGED <<pc, stream, first>>

CapSetPayload ==
    \E p \in CapacityInputs \cup {<<>>} :
        SetPayload(p) /\ UNCHANGED <<pc, stream, first>>

NextCapacity ==
    \/ CapConstruct
    \/ CapSetPayload

SpecCapacity == InitCapacity /\ [][NextCapacity]_vars

----------------------------------------------------------------------------
(* SpecRoundTrip: a packet is built, serialised, and the bytes are parsed  *)
(* back with fromData                                                      *)

InitRoundTrip ==
    /\ InitCommon
    /\ data = <<>>
    /\ pc = "rt_new"

RoundTripTypes == TypeInputs \cup {0, numeric_limits_max(W_t)}

RTConstruct ==
    /\ pc = "rt_new"
    /\ \E t \in RoundTripTypes, p \in PayloadInputs \cup CapacityInputs :
          /\ Construct(t, p)
          /\ sent' = <<[type |-> t, payload |-> p]>>
    /\ pc' = IF error' = "none" THEN "rt_built" ELSE "rt_rejected"
    /\ UNCHANGED <<wire, appended, extracted, first>>

RTToData ==
    /\ pc = "rt_built"
    /\ ToData
    /\ pc' = "rt_serialised"
    /\ UNCHANGED <<stream, first>>

\* the bytes reach a receiver that holds a default-constructed packet
RTDeliver ==
    /\ pc = "rt_serialised"
    /\ data' = result.bytes
    /\ packet' = DefaultPacket
    /\ pc' = "rt_delivered"
    /\ UNCHANGED <<config, header, error, call, result, stream, first>>

RTFromData ==
    /\ pc = "rt_delivered"
    /\ PacketFromData
    /\ pc' = "rt_done"
    /\ UNCHANGED <<stream, first>>

NextRoundTrip ==
    \/ RTConstruct
    \/ RTToData
    \/ RTDeliver
    \/ RTFromData

SpecRoundTrip == InitRoundTrip /\ [][NextRoundTrip]_vars

----------------------------------------------------------------------------
(* SpecStream: a sender serialises packets onto a byte stream; the         *)
(* receiver appends the stream to its buffer in chunks and after each      *)
(* append runs  while (hasCompletePacket(data)) extractFromData(data);     *)

\* "", "\x01", "\x01B", ...: the first byte reads as a size field
StreamPayloads ==
    {[i \in 1..n |-> IF i = 1 THEN 1 ELSE 64 + i] : n \in 0..MaxStreamPayload}

InitStream ==
    /\ InitCommon
    /\ data = <<>>
    /\ pc = "idle"

\* socket.write(GenericPacket(t, p).toData())
StreamSend ==
    /\ pc = "idle"
    /\ Len(sent) < MaxPackets
    /\ \E t \in TypeInputs, p \in StreamPayloads :
          /\ Construct(t, p)
          /\ sent' = Append(sent, [type |-> t, payload |-> p])
    /\ wire' = wire \o Packet_toData(packet')
    /\ UNCHANGED <<pc, appended, extracted, first>>

\* data.append(socket.read(k))
StreamAppend ==
    /\ pc = "idle"
    /\ \E k \in 1..Len(wire) :
          /\ data' = data \o SubSeq(wire, 1, k)
          /\ appended' = appended \o SubSeq(wire, 1, k)
          /\ wire' = SubSeq(wire, k + 1, Len(wire))
    /\ pc' = "loop"
    /\ UNCHANGED <<config, packet, header, error, call, result, sent, extracted, first>>

\* the loop condition
StreamTest ==
    /\ pc = "loop"
    /\ HasCompletePacket
    /\ pc' = IF result'.bool THEN "extract" ELSE "idle"
    /\ UNCHANGED <<stream, first>>

\* the loop body
StreamExtract ==
    /\ pc = "extract"
    /\ PacketExtractFromData
    /\ IF error' = "none"
       THEN extracted' = Append(extracted, packet') /\ pc' = "loop"
       ELSE UNCHANGED extracted /\ pc' = "failed"
    /\ UNCHANGED <<sent, wire, appended, first>>

NextStream ==
    \/ StreamSend
    \/ StreamAppend
    \/ StreamTest
    \/ StreamExtract

SpecStream == InitStream /\ [][NextStream]_vars

----------------------------------------------------------------------------
(* SpecRepeat: one of the non-destructive calls is made twice in a row on  *)
(* the same buffer                                                         *)

NonDestructive ==
    {"hasCompleteHeader", "hasCompletePacket", "Header::fromData", "fromData"}

NonDestructiveCall(op) ==
    \/ op = "hasCompleteHeader" /\ HasCompleteHeader
    \/ op = "hasCompletePacket" /\ HasCompletePacket
    \/ op = "Header::fromData" /\ HeaderFromData
    \/ op = "fromData" /\ PacketFromData

InitRepeat ==
    /\ InitCommon
    /\ data \in Buffers
    /\ pc = "first"

RepeatFirst ==
    /\ pc = "first"
    /\ \E op \in NonDestructive : NonDestructiveCall(op)
    /\ first' = Outcome'
    /\ pc' = "second"
    /\ UNCHANGED stream

RepeatSecond ==
    /\ pc = "second"
    /\ NonDestructiveCall(call.op)
    /\ pc' = "done"
    /\ UNCHANGED <<stream, first>>

NextRepeat ==
    \/ RepeatFirst
    \/ RepeatSecond

SpecRepeat == InitRepeat /\ [][NextRepeat]_vars

----------------------------------------------------------------------------
(* SpecLoop: the deframing loop                                            *)
(*   while (hasCompletePacket(data)) extractFromData(data);                *)
(* on a buffer of arbitrary bytes; appended holds the buffer as it was     *)
(* when the loop began.  The loop is sequential code: the step it is at    *)
(* is eventually taken.                                                    *)

InitLoop ==
    /\ hostLE \in BOOLEAN
    /\ W_s \in Widths
    /\ W_t \in Widths
    /\ data \in Buffers
    /\ appended = data
    /\ packet = DefaultPacket
    /\ header = Header_new(0, 0)
    /\ error = "none"
    /\ call = [op |-> "none", type |-> 0, payload |-> <<>>, pre |-> <<>>]
    /\ result = NoResult
    /\ sent = <<>>
    /\ wire = <<>>
    /\ extracted = <<>>
    /\ first = NoOutcome
    /\ pc = "loop"

LoopTest == StreamTest

LoopExtract == StreamExtract

NextLoop ==
    \/ LoopTest
    \/ LoopExtract

SpecLoop == InitLoop /\ [][NextLoop]_vars /\ WF_vars(NextLoop)

----------------------------------------------------------------------------
(* Properties *)

\* the wire format of section 6: an unsigned field of w bytes, most
\* significant byte first
WireField(v, w) == [i \in 1..w |-> (v \div Pow256(w - i)) % 256]

WireValue(b) == BigEndianValue(b)

HEADER_WIDTH == W_s + W_t

DeclaredSize(B) == WireValue(SubSeq(B, 1, W_s))
DeclaredType(B) == WireValue(SubSeq(B, W_s + 1, HEADER_WIDTH))

\* C1: in every packet the program can hold, built by the constructor, by
\* fromData / extractFromData, and changed by setPayload or through the
\* mutable payload() accessor, header().size() equals the byte length of
\* payload() and does not exceed maxSize().
C1_SizeEqualsPayloadLength ==
    /\ packet.m_header.m_size = Len(packet.m_payload)
    /\ packet.m_header.m_size <= Header_maxSize

\* C2: setPayload(newPayload) fails with a range error when newPayload is
\* longer than maxSize(), and otherwise succeeds and sets size to the length
\* of newPayload.
C2_SetPayloadValidatesCapacity ==
    call.op = "setPayload" =>
        IF Len(call.payload) > Header_maxSize
        THEN error = "range_error"
        ELSE /\ error = "none"
             /\ packet.m_header.m_size = Len(call.payload)
             /\ packet.m_payload = call.payload

\* C3: constructing a packet from (type, payload) succeeds with
\* size = payload.length when payload.length <= maxSize() = 2^(size bits) - 1
\* and fails with a range error when payload.length > maxSize(), in which
\* case no packet is produced (the caller's packet is what it was).
C3_ConstructionCapacity ==
    [][call'.op = "GenericPacket" =>
          /\ Header_maxSize = (IF W_s = 1 THEN 255 ELSE 65535)
          /\ IF Len(call'.payload) <= Header_maxSize
             THEN /\ error' = "none"
                  /\ packet'.m_header.m_size = Len(call'.payload)
                  /\ packet'.m_header.m_type = call'.type
                  /\ packet'.m_payload = call'.payload
             ELSE /\ error' = "range_error"
                  /\ packet' = packet]_vars

C3_Witness ==
    /\ W_s = 1
    /\ call.op = "GenericPacket"
    /\ Len(call.payload) = Header_maxSize + 1
    /\ error = "range_error"
    /\ packet.m_header.m_size = Header_maxSize
    /\ Len(packet.m_payload) = Header_maxSize

\* C4: for every type the type field can hold and every payload no longer
\* than maxSize(), fromData(GenericPacket(type, payload).toData()) succeeds
\* and yields the same type, the same payload bytes and size = payload.length;
\* construction is refused only for payloads longer than maxSize().
C4_RoundTrip ==
    /\ pc = "rt_rejected" => Len(sent[1].payload) > Header_maxSize
    /\ pc = "rt_done" =>
          /\ error = "none"
          /\ packet.m_header.m_type = sent[1].type
          /\ packet.m_payload = sent[1].payload
          /\ packet.m_header.m_size = Len(sent[1].payload)

C4_Witness ==
    /\ pc = "rt_done"
    /\ hostLE
    /\ W_s = 2
    /\ W_t = 2
    /\ sent[1].type = 65534
    /\ sent[1].payload = <<65, 66, 67>>
    /\ packet.m_payload = sent[1].payload
    /\ packet.m_header.m_type = 65534

\* C5: when hasCompletePacket(B) holds, with declared size s and k trailing
\* bytes, extractFromData(B) returns the packet fromData returns on B (type,
\* size and payload as B's bytes give them), removes exactly HEADER_WIDTH + s
\* bytes from the front and leaves the last k bytes of B, in order.
C5_ExtractionConservation ==
    (call.op = "extractFromData" /\ Packet_hasCompletePacket(call.pre)) =>
        LET B == call.pre
            s == DeclaredSize(B)
            k == Len(B) - HEADER_WIDTH - s
        IN  /\ k >= 0
            /\ error = "none"
            /\ packet = Packet_copy(B)
            /\ packet.m_header.m_size = s
            /\ packet.m_header.m_type = DeclaredType(B)
            /\ packet.m_payload = SubSeq(B, HEADER_WIDTH + 1, HEADER_WIDTH + s)
            /\ Len(data) = Len(B) - (HEADER_WIDTH + s)
            /\ data = SubSeq(B, Len(B) - k + 1, Len(B))

C5_Witness ==
    /\ call.op = "extractFromData"
    /\ error = "none"
    /\ W_s = 2
    /\ hostLE
    /\ DeclaredSize(call.pre) > 0
    /\ Len(data) > 0
    /\ data # packet.m_payload

\* C6: hasCompletePacket(B) is true exactly when B holds HEADER_WIDTH bytes
\* and at least as many bytes after them as the big-endian size field at the
\* front of B declares; it returns false, without an error, for a buffer
\* shorter than HEADER_WIDTH.
C6_HasCompletePacket ==
    call.op = "hasCompletePacket" =>
        /\ error = "none"
        /\ result.bool =
              (/\ Len(call.pre) >= HEADER_WIDTH
               /\ Len(call.pre) - HEADER_WIDTH >= DeclaredSize(call.pre))

C6_Witness ==
    /\ call.op = "hasCompletePacket"
    /\ Len(call.pre) = HEADER_WIDTH
    /\ DeclaredSize(call.pre) = 0
    /\ result.bool

\* C7: on a buffer shorter than HEADER_WIDTH, Header::fromData,
\* Header::extractFromData, fromData and extractFromData fail with a length
\* error; on a buffer without a complete packet, fromData and extractFromData
\* fail with a length error; a failed call leaves the buffer as it was.
C7_IncompleteInputRejected ==
    /\ (/\ call.op \in {"Header::fromData", "Header::extractFromData",
                        "fromData", "extractFromData"}
        /\ Len(call.pre) < HEADER_WIDTH)
          => (error = "length_error" /\ data = call.pre)
    /\ (/\ call.op \in {"fromData", "extractFromData"}
        /\ ~Packet_hasCompletePacket(call.pre))
          => (error = "length_error" /\ data = call.pre)
    /\ error = "length_error" => data = call.pre

C7_Witness ==
    /\ call.op = "extractFromData"
    /\ Len(call.pre) > HEADER_WIDTH
    /\ error = "length_error"
    /\ data = call.pre

\* C8: toData() is the W_s big-endian bytes of size, then the W_t big-endian
\* bytes of type, then the payload bytes, with nothing between them, and
\* dataSize() is the length of toData(), HEADER_WIDTH + payload.length.
C8_WireFormat ==
    /\ call.op = "toData" =>
          /\ result.bytes = WireField(packet.m_header.m_size, W_s)
                            \o WireField(packet.m_header.m_type, W_t)
                            \o packet.m_payload
          /\ Len(result.bytes) = Packet_dataSize(packet)
    /\ call.op = "dataSize" =>
          /\ result.num = HEADER_WIDTH + Len(packet.m_payload)
          /\ result.num = Len(Packet_toData(packet))

C8_Witness ==
    /\ call.op = "toData"
    /\ W_s = 1
    /\ W_t = 1
    /\ packet.m_header.m_type = 7
    /\ packet.m_payload = <<65, 66, 67>>
    /\ result.bytes = <<3, 7, 65, 66, 67>>

\* C9: on a buffer of at least HEADER_WIDTH bytes Header::extractFromData
\* returns the header held in the first HEADER_WIDTH bytes of the buffer as
\* it was before the call, the header Header::fromData returns on it, and
\* leaves the buffer without exactly those bytes.
C9_HeaderExtraction ==
    (call.op = "Header::extractFromData" /\ Len(call.pre) >= HEADER_WIDTH) =>
        /\ error = "none"
        /\ header = Header_copy(call.pre)
        /\ header.m_size = DeclaredSize(call.pre)
        /\ header.m_type = DeclaredType(call.pre)
        /\ data = SubSeq(call.pre, HEADER_WIDTH + 1, Len(call.pre))

C9_Witness ==
    /\ call.op = "Header::extractFromData"
    /\ error = "none"
    /\ Len(call.pre) >= 2 * HEADER_WIDTH
    /\ SubSeq(call.pre, 1, HEADER_WIDTH) # SubSeq(data, 1, HEADER_WIDTH)
    /\ header.m_size = DeclaredSize(call.pre)

\* the packets of a sequence, serialised one after the other
RECURSIVE Serialised(_)
Serialised(ps) ==
    IF ps = <<>> THEN <<>>
    ELSE Packet_toData(Packet_new(ps[1].type, ps[1].payload))
         \o Serialised(Tail(ps))

TypeAndPayload(p) == [type |-> p.m_header.m_type, payload |-> p.m_payload]

\* the number of leading packets of sent whose bytes have all been appended
CompleteCount ==
    Cardinality({n \in 1..Len(sent) :
                   Len(Serialised(SubSeq(sent, 1, n))) <= Len(appended)})

C11_NonDestructive ==
    /\ pc \in {"second", "done"} =>
          /\ call.op \in NonDestructive
          /\ data = call.pre
          /\ error \in {"none", "length_error"}
    /\ pc = "done" =>
          /\ data = first.data
          /\ error = first.error
          /\ result = first.result
          /\ header = first.header
          /\ packet = first.packet

C11_Witness ==
    /\ pc = "done"
    /\ call.op = "fromData"
    /\ error = "none"
    /\ W_s = 2
    /\ packet.m_payload # <<>>
    /\ Len(data) > HEADER_WIDTH + Len(packet.m_payload)
    /\ data = first.data

\* C12: in the loop  while hasCompletePacket(buffer): extractFromData(buffer)
\* on a buffer of arbitrary bytes, every extraction succeeds and shortens
\* the buffer by at least HEADER_WIDTH >= 2 bytes, no step lengthens it, at
\* most floor(buffer.length / HEADER_WIDTH) packets are extracted, the loop
\* ends, and when it has ended hasCompletePacket(buffer) is false.
C12_LoopProgress ==
    /\ [][/\ Len(data') <= Len(data)
          /\ call'.op = "extractFromData" =>
                /\ error' = "none"
                /\ HEADER_WIDTH >= 2
                /\ Len(data') <= Len(data) - HEADER_WIDTH
                /\ Len(extracted') = Len(extracted) + 1]_vars
    /\ [](/\ pc # "failed"
          /\ Len(extracted) <= Len(appended) \div HEADER_WIDTH
          /\ pc = "idle" =>
                ~(/\ Len(data) >= HEADER_WIDTH
                  /\ Len(data) - HEADER_WIDTH >= DeclaredSize(data)))
    /\ <>(pc = "idle")

C12_Witness ==
    /\ pc = "idle"
    /\ Len(extracted) >= 2
    /\ Len(extracted) * HEADER_WIDTH = Len(appended)
    /\ data = <<>>

====
